---------------------------- MODULE Spec2Model ----------------------------
(***************************************************************************)
(* The tick-driven simulation core of the snake/maze game of src/main.go:  *)
(* the Game struct, loadLevel, Update and everything Update calls.         *)
(*                                                                         *)
(* Points are records [X, Y] with the source's 0-based coordinates.  The   *)
(* level text (assets/level.txt, read by loadLevel) is the program's       *)
(* input: it is drawn from LevelTexts, each text given as its trimmed,     *)
(* split rows, each row as the sequence of its characters.  All levels     *)
(* used are rectangular (every row has the length of the first).  A level  *)
(* text loadLevel rejects ends the process in log.Fatal before the first   *)
(* tick: `exited` records that.                                            *)
(***************************************************************************)
EXTENDS Integers, Sequences, FiniteSets, TLC

-----------------------------------------------------------------------------
(* Program constants (src/main.go, const block and literals).              *)

SCREEN_WIDTH == 640
GRID_SIZE == 20
VIEWPORT_WIDTH == SCREEN_WIDTH \div GRID_SIZE
POWERUP_TIME == 300
MOVE_INTERVAL == 10
BLINK_PERIOD == 60
ENEMY_BONUS == 5

StateStart == "Start"
StatePlaying == "Playing"
StateGameOver == "GameOver"
StateWin == "Win"

GameState == {StateStart, StatePlaying, StateGameOver, StateWin}

Point(x, y) == [X |-> x, Y |-> y]

Enemy(p) == [Position |-> p]

(* The keys Update polls with ebiten.IsKeyPressed.                          *)
KeySpace == "Space"
KeyR == "R"
KeyArrowLeft == "Left"
KeyArrowRight == "Right"
KeyArrowUp == "Up"
KeyArrowDown == "Down"

(* The sets of keys that may be down during one tick.                       *)
Inputs ==
    { {}, {KeyArrowLeft}, {KeyArrowRight}, {KeyArrowUp}, {KeyArrowDown},
      {KeySpace}, {KeyR}, {KeyArrowLeft, KeyArrowRight},
      {KeyArrowUp, KeyArrowDown}, {KeyArrowLeft, KeyArrowUp},
      {KeySpace, KeyArrowUp}, {KeyR, KeyArrowDown} }

(* Bound of the model: how far into a blink cycle the start key is pressed. *)
MaxStartWait == 1

(* Bound of the model: the movement cycles of a game are counted up to here. *)
MaxCycles == 9

-----------------------------------------------------------------------------
(* Level texts: '#' wall, 'F' food, 'S' entrance, 'E' exit, 'X' enemy,      *)
(* anything else floor.                                                     *)

(* A row piece: n cells holding the character c.                            *)
Run(c, n) == [i \in 1 .. n |-> c]

(* The 10x3 corridor: narrower than the viewport, no enemy, one food       *)
(* half way from the entrance to the exit.                                  *)
ScenarioText ==
    << Run("#", 10),
       <<"S", ".", ".", ".", ".", "F", ".", ".", ".", "E">>,
       Run("#", 10) >>

LevelTexts ==
    << (* 1: corridor; a food, then an enemy in a dead end *)
       << <<"S", "F", ".", ".", "X", "#", "E">>,
          <<"#", "#", "#", "#", "#", "#", "#">> >>,
       (* 2: corridor; the enemy reaches the exit cell before the snake *)
       << <<"S", ".", "E", "X", "#", "F">>,
          <<"#", "#", "#", "#", "#", "#">> >>,
       (* 3: corridor; the enemy is two cells from the entrance *)
       << <<"S", ".", "X", "#", "F", "E">>,
          <<"#", "#", "#", "#", "#", "#">> >>,
       (* 4: corridor; food next to the exit, an enemy walled in *)
       << <<"S", "F", "E", "#", "X", "#">>,
          <<"#", "#", "#", "#", "#", "#">> >>,
       (* 5: corridor; the enemy is three cells from the entrance *)
       << <<"S", ".", ".", "X", "#", "F", "E">>,
          <<"#", "#", "#", "#", "#", "#", "#">> >>,
       (* 6: corridor; the enemy steps onto the food cell *)
       << <<"S", ".", "F", "X", "#", "E">>,
          <<"#", "#", "#", "#", "#", "#">> >>,
       (* 7: open 3x3 torus with one food *)
       << <<"S", ".", ".">>,
          <<".", "F", ".">>,
          <<".", ".", "E">> >>,
       (* 8: open 2x2 torus with two foods *)
       << <<"S", "F">>,
          <<"E", "F">> >>,
       (* 9: corridor; the enemy starts behind the snake *)
       << <<"#", "X", "S", "F", ".", "#", "E">>,
          <<"#", "#", "#", "#", "#", "#", "#">> >>,
       (* 10: the 10x3 corridor *)
       ScenarioText,
       (* 11: 33x4, wider than the viewport: two corridors joined along    *)
       (* columns 8..27, the entrance in the last column, the food walled  *)
       (* in *)
       << Run(".", 32) \o <<"S">>,
          Run("#", 7) \o <<"E">> \o Run(".", 20) \o Run("#", 5),
          Run("#", 5) \o <<"F">> \o Run("#", 27),
          Run("#", 33) >>,
       (* 12: the exit at (0,0) *)
       << <<"E", "F", "S">>,
          <<"#", "#", "#">> >>,
       (* 13: no entrance *)
       << <<".", "F", "E">> >>,
       (* 14: no exit *)
       << <<"S", "F", ".">> >>,
       (* 15: no food *)
       << <<"S", ".", "E">> >>,
       (* 16: nothing but floor and wall *)
       << <<".", "#">> >>,
       (* 17: a ring of five cells with three foods, the exit beside it *)
       << <<"F", "#">>,
          <<"S", "#">>,
          <<"F", "#">>,
          <<"F", "#">>,
          <<".", "E">> >>,
       (* 18: corridor; a food, then three enemies in a dead end *)
       << <<"S", "F", "X", "X", "X", "#", "E">>,
          <<"#", "#", "#", "#", "#", "#", "#">> >>,
       (* 19: corridor open at both ends; an enemy that flees across the edge *)
       << <<"S", "F", ".", "X", "E">>,
          <<"#", "#", "#", "#", "#">> >> >>

Levels == 1 .. Len(LevelTexts)

-----------------------------------------------------------------------------
(* loadLevel: the parse of a level text.                                    *)

(* The cells of a text in the order of loadLevel's two nested loops.        *)
ScanOrder(lines) ==
    LET h == Len(lines)
        w == Len(lines[1])
    IN [n \in 1 .. (h * w) |-> Point((n - 1) % w, (n - 1) \div w)]

CharAt(lines, p) == lines[p.Y + 1][p.X + 1]

CellsOf(lines, char) ==
    SelectSeq(ScanOrder(lines), LAMBDA p : CharAt(lines, p) = char)

(* Faulty variant: the exit is taken as missing when it is Go's zero Point. *)
LoadLevel_ZeroExit(lines) ==
    LET starts == CellsOf(lines, "S")
        exits == CellsOf(lines, "E")
        foods == CellsOf(lines, "F")
        spawn == CellsOf(lines, "X")
        exit == IF exits = <<>> THEN Point(0, 0) ELSE exits[Len(exits)]
    IN [mazeHeight |-> Len(lines),
        mazeWidth |-> Len(lines[1]),
        maze |-> [y \in 0 .. (Len(lines) - 1) |->
                    [x \in 0 .. (Len(lines[1]) - 1) |->
                        CharAt(lines, Point(x, y)) = "#"]],
        foods |-> foods,
        enemies |-> [i \in 1 .. Len(spawn) |-> Enemy(spawn[i])],
        snake |-> IF starts = <<>> THEN <<>> ELSE <<starts[Len(starts)]>>,
        exit |-> exit,
        fatal |-> (starts = <<>> \/ exit = Point(0, 0) \/ foods = <<>>)]

(* What loadLevel leaves in the Game struct, and whether it called          *)
(* log.Fatal.  A repeated 'S' or 'E' overwrites the earlier one.            *)
LoadLevel(lines) ==
    LET starts == CellsOf(lines, "S")
        exits == CellsOf(lines, "E")
        foods == CellsOf(lines, "F")
        spawn == CellsOf(lines, "X")
    IN [mazeHeight |-> Len(lines),
        mazeWidth |-> Len(lines[1]),
        maze |-> [y \in 0 .. (Len(lines) - 1) |->
                    [x \in 0 .. (Len(lines[1]) - 1) |->
                        CharAt(lines, Point(x, y)) = "#"]],
        foods |-> foods,
        enemies |-> [i \in 1 .. Len(spawn) |-> Enemy(spawn[i])],
        snake |-> IF starts = <<>> THEN <<>> ELSE <<starts[Len(starts)]>>,
        exit |-> IF exits = <<>> THEN Point(0, 0) ELSE exits[Len(exits)],
        fatal |-> (starts = <<>> \/ exits = <<>> \/ foods = <<>>)]

Loaded == [l \in Levels |-> LoadLevel(LevelTexts[l])]

-----------------------------------------------------------------------------
VARIABLES
    level,              \* which level text assets/level.txt holds
    snake, foods, exit, direction, nextDirection, score, state, maze,
    viewportX, mazeWidth, mazeHeight, moveCounter, enemies, powerUpTimer,
    startBlinkCounter,  \* the fields of the Game struct (fonts left out)
    exited,             \* loadLevel called log.Fatal: the process is gone
    cycles,             \* history: movement cycles since the game (re)started
    applied,            \* history: the direction the latest of them applied
    before              \* history: the Game fields the latest tick started from

vars == <<level, snake, foods, exit, direction, nextDirection, score, state,
          maze, viewportX, mazeWidth, mazeHeight, moveCounter, enemies,
          powerUpTimer, startBlinkCounter, exited, cycles, applied, before>>

(* The Game struct as one value.                                            *)
Game ==
    [snake |-> snake, foods |-> foods, exit |-> exit, direction |-> direction,
     nextDirection |-> nextDirection, score |-> score, state |-> state,
     maze |-> maze, viewportX |-> viewportX, mazeWidth |-> mazeWidth,
     mazeHeight |-> mazeHeight, moveCounter |-> moveCounter,
     enemies |-> enemies, powerUpTimer |-> powerUpTimer,
     startBlinkCounter |-> startBlinkCounter]

(* NewGame: the struct literal followed by loadLevel; every field the       *)
(* literal does not name is Go's zero value.                                *)
NewGame(l) ==
    LET loaded == Loaded[l]
    IN [snake |-> loaded.snake, foods |-> loaded.foods, exit |-> loaded.exit,
        direction |-> Point(1, 0), nextDirection |-> Point(1, 0),
        score |-> 0, state |-> StateStart, maze |-> loaded.maze,
        viewportX |-> 0, mazeWidth |-> loaded.mazeWidth,
        mazeHeight |-> loaded.mazeHeight, moveCounter |-> 0,
        enemies |-> loaded.enemies, powerUpTimer |-> 0,
        startBlinkCounter |-> 0]

-----------------------------------------------------------------------------
(* Helpers for Go's slices and arithmetic.                                  *)

(* append(s[:i], s[i+1:]...) for the 1-based index i.                       *)
RemoveAt(s, i) == SubSeq(s, 1, i - 1) \o SubSeq(s, i + 1, Len(s))

(* The index at which a "for i, v := range s { if v == p" loop first        *)
(* matches, 0 if it never does.                                             *)
FirstIndex(s, p) ==
    IF \E i \in 1 .. Len(s) : s[i] = p
    THEN CHOOSE i \in 1 .. Len(s) :
            s[i] = p /\ \A j \in 1 .. (i - 1) : s[j] # p
    ELSE 0

(* Faulty variant: the position is held at the edges instead of wrapping. *)
Wrap_Clamped(g, p, d) ==
    LET x == p.X + d.X
        y == p.Y + d.Y
        w == g.mazeWidth
        h == g.mazeHeight
    IN Point(IF x < 0 THEN 0 ELSE IF x >= w THEN w - 1 ELSE x,
             IF y < 0 THEN 0 ELSE IF y >= h THEN h - 1 ELSE y)

(* Point{(p.X + d.X + g.mazeWidth) % g.mazeWidth, ...}: the left operand is *)
(* never negative, so Go's % and TLA+'s % agree.                            *)
Wrap(g, p, d) ==
    Point((p.X + d.X + g.mazeWidth) % g.mazeWidth,
          (p.Y + d.Y + g.mazeHeight) % g.mazeHeight)

(* math.Hypot is compared, never printed: it is modelled by its square,     *)
(* which orders integer offsets the same way.                               *)
Hypot(dx, dy) == dx * dx + dy * dy

(* math.MaxFloat64, on the scale of Hypot above.                            *)
MaxFloat64 == 1000000

-----------------------------------------------------------------------------
(* The methods of Game.  Each takes the struct g and yields it as the       *)
(* method leaves it.                                                        *)

(* Faulty variant: only walls count, the snake's own body does not. *)
isCollision_WallsOnly(g, p) ==
    g.maze[p.Y][p.X]

(* Faulty variant: the cell the tail is about to leave does not count. *)
isCollision_SkipsTail(g, p) ==
    \/ g.maze[p.Y][p.X]
    \/ \E i \in 2 .. (Len(g.snake) - 1) : g.snake[i] = p

isCollision(g, p) ==
    \/ g.maze[p.Y][p.X]
    \/ \E i \in 2 .. Len(g.snake) : g.snake[i] = p

(* One "if IsKeyPressed(key) && axis == 0" statement of handleInput.        *)
pressKey(g, keys, key, axisFree, d) ==
    IF key \in keys /\ axisFree THEN [g EXCEPT !.nextDirection = d] ELSE g

handleInput(g, keys) ==
    LET g1 == pressKey(g, keys, KeyArrowLeft, g.direction.X = 0, Point(-1, 0))
        g2 == pressKey(g1, keys, KeyArrowRight, g1.direction.X = 0, Point(1, 0))
        g3 == pressKey(g2, keys, KeyArrowUp, g2.direction.Y = 0, Point(0, -1))
    IN pressKey(g3, keys, KeyArrowDown, g3.direction.Y = 0, Point(0, 1))

adjustViewport(g) ==
    LET snakeHead == g.snake[1]
        shifted ==
            IF snakeHead.X - g.viewportX > (VIEWPORT_WIDTH * 3) \div 4
            THEN snakeHead.X - (VIEWPORT_WIDTH * 3) \div 4
            ELSE IF snakeHead.X - g.viewportX < VIEWPORT_WIDTH \div 4
                 THEN snakeHead.X - VIEWPORT_WIDTH \div 4
                 ELSE g.viewportX
        clamped ==
            IF shifted < 0
            THEN 0
            ELSE IF shifted > g.mazeWidth - VIEWPORT_WIDTH
                 THEN g.mazeWidth - VIEWPORT_WIDTH
                 ELSE shifted
    IN [g EXCEPT !.viewportX = clamped]

(* Faulty variant: the enemy is eaten whether or not a power-up is active. *)
checkEnemyCollision_AlwaysEats(g) ==
    LET i == FirstIndex([n \in 1 .. Len(g.enemies) |-> g.enemies[n].Position],
                        g.snake[1])
    IN IF i = 0
       THEN g
       ELSE [g EXCEPT !.score = g.score + ENEMY_BONUS,
                      !.enemies = RemoveAt(g.enemies, i)]

checkEnemyCollision(g) ==
    LET i == FirstIndex([n \in 1 .. Len(g.enemies) |-> g.enemies[n].Position],
                        g.snake[1])
    IN IF i = 0
       THEN g
       ELSE IF g.powerUpTimer > 0
            THEN [g EXCEPT !.score = g.score + ENEMY_BONUS,
                           !.enemies = RemoveAt(g.enemies, i)]
            ELSE [g EXCEPT !.state = StateGameOver]

(* moveSnake, lines 190-192: the buffered direction is committed unless it  *)
(* is the exact negation of the committed one.                              *)
(* Faulty variant: the guard is inverted, so only a reversal would be committed. *)
commitDirection_Inverted(g) ==
    IF g.nextDirection.X = -g.direction.X /\ g.nextDirection.Y = -g.direction.Y
    THEN [g EXCEPT !.direction = g.nextDirection]
    ELSE g

commitDirection(g) ==
    IF g.nextDirection.X # -g.direction.X \/ g.nextDirection.Y # -g.direction.Y
    THEN [g EXCEPT !.direction = g.nextDirection]
    ELSE g

(* Faulty variant: the food eaten is replaced by the last food of the list. *)
eatFood_SwapRemove(g, newHead) ==
    LET i == FirstIndex(g.foods, newHead)
        n == Len(g.foods)
    IN IF i # 0
       THEN [g EXCEPT !.score = g.score + 1,
                      !.foods = SubSeq([g.foods EXCEPT ![i] = g.foods[n]], 1, n - 1),
                      !.powerUpTimer = POWERUP_TIME]
       ELSE [g EXCEPT !.snake = SubSeq(g.snake, 1, Len(g.snake) - 1)]

(* Faulty variant: the tail is removed even when a food is eaten.           *)
eatFood_NoGrowth(g, newHead) ==
    LET i == FirstIndex(g.foods, newHead)
        g1 == [g EXCEPT !.snake = SubSeq(g.snake, 1, Len(g.snake) - 1)]
    IN IF i # 0
       THEN [g1 EXCEPT !.score = g.score + 1,
                       !.foods = RemoveAt(g.foods, i),
                       !.powerUpTimer = POWERUP_TIME]
       ELSE g1

(* moveSnake, lines 211-224: the food loop and the tail removal, with the   *)
(* new head already prepended.                                              *)
eatFood(g, newHead) ==
    LET i == FirstIndex(g.foods, newHead)
    IN IF i # 0
       THEN [g EXCEPT !.score = g.score + 1,
                      !.foods = RemoveAt(g.foods, i),
                      !.powerUpTimer = POWERUP_TIME]
       ELSE [g EXCEPT !.snake = SubSeq(g.snake, 1, Len(g.snake) - 1)]

(* Faulty variant: the exit is tested after the food and enemy checks. *)
moveSnake_ExitLast(g) ==
    LET g1 == commitDirection(g)
        newHead == Wrap(g1, g1.snake[1], g1.direction)
    IN IF isCollision(g1, newHead)
       THEN [g1 EXCEPT !.state = StateGameOver]
       ELSE LET g2 == [g1 EXCEPT !.snake = <<newHead>> \o g1.snake]
                g3 == adjustViewport(checkEnemyCollision(eatFood(g2, newHead)))
            IN IF newHead = g.exit /\ g3.state = StatePlaying
               THEN [g3 EXCEPT !.state = StateWin]
               ELSE g3

moveSnake(g) ==
    LET g1 == commitDirection(g)
        newHead == Wrap(g1, g1.snake[1], g1.direction)
    IN IF isCollision(g1, newHead)
       THEN [g1 EXCEPT !.state = StateGameOver]
       ELSE LET g2 == [g1 EXCEPT !.snake = <<newHead>> \o g1.snake]
            IN IF newHead = g.exit
               THEN [g2 EXCEPT !.state = StateWin]
               ELSE adjustViewport(checkEnemyCollision(eatFood(g2, newHead)))

possibleMoves == <<Point(1, 0), Point(-1, 0), Point(0, 1), Point(0, -1)>>

(* Faulty variant: "<=" for "<", so the later of two equally near moves wins. *)
getBestMoveTowards_LaterTieWins(g, from, to, moves) ==
    LET RECURSIVE Loop(_, _, _)
        Loop(n, bestMove, minDistance) ==
            IF n > Len(moves)
            THEN bestMove
            ELSE LET move == moves[n]
                     newPos == Wrap(g, from, move)
                     distance == Hypot(newPos.X - to.X, newPos.Y - to.Y)
                 IN IF ~isCollision(g, newPos) /\ distance <= minDistance
                    THEN Loop(n + 1, move, distance)
                    ELSE Loop(n + 1, bestMove, minDistance)
    IN Loop(1, Point(0, 0), MaxFloat64)

getBestMoveTowards(g, from, to, moves) ==
    LET RECURSIVE Loop(_, _, _)
        Loop(n, bestMove, minDistance) ==
            IF n > Len(moves)
            THEN bestMove
            ELSE LET move == moves[n]
                     newPos == Wrap(g, from, move)
                     distance == Hypot(newPos.X - to.X, newPos.Y - to.Y)
                 IN IF ~isCollision(g, newPos) /\ distance < minDistance
                    THEN Loop(n + 1, move, distance)
                    ELSE Loop(n + 1, bestMove, minDistance)
    IN Loop(1, Point(0, 0), MaxFloat64)

getBestMoveAway(g, from, to, moves) ==
    LET RECURSIVE Loop(_, _, _)
        Loop(n, bestMove, maxDistance) ==
            IF n > Len(moves)
            THEN bestMove
            ELSE LET move == moves[n]
                     newPos == Wrap(g, from, move)
                     distance == Hypot(newPos.X - to.X, newPos.Y - to.Y)
                 IN IF ~isCollision(g, newPos) /\ distance > maxDistance
                    THEN Loop(n + 1, move, distance)
                    ELSE Loop(n + 1, bestMove, maxDistance)
    IN Loop(1, Point(0, 0), 0)

(* Faulty variant: the enemy takes the first move nearest to the head (or   *)
(* farthest from it while the timer runs), walls and bodies not tested.     *)
moveEnemy_ThroughWalls(g, e) ==
    LET snakeHead == g.snake[1]
        D(n) == LET p == Wrap(g, e.Position, possibleMoves[n])
                IN Hypot(p.X - snakeHead.X, p.Y - snakeHead.Y)
        best == CHOOSE n \in 1 .. Len(possibleMoves) :
                    \A m \in 1 .. Len(possibleMoves) :
                        /\ IF g.powerUpTimer > 0 THEN D(n) >= D(m) ELSE D(n) <= D(m)
                        /\ (m < n) => D(m) # D(n)
    IN [e EXCEPT !.Position = Wrap(g, e.Position, possibleMoves[best])]

moveEnemy(g, e) ==
    LET snakeHead == g.snake[1]
        bestMove ==
            IF g.powerUpTimer > 0
            THEN getBestMoveAway(g, e.Position, snakeHead, possibleMoves)
            ELSE getBestMoveTowards(g, e.Position, snakeHead, possibleMoves)
        newPos == Wrap(g, e.Position, bestMove)
    IN IF ~isCollision(g, newPos) THEN [e EXCEPT !.Position = newPos] ELSE e

(* moveEnemy reads the snake, the timer and the maze and writes only its    *)
(* own enemy, so the loop over the enemies is a map.                        *)
moveEnemies(g) ==
    [g EXCEPT !.enemies =
                  [i \in 1 .. Len(g.enemies) |-> moveEnemy(g, g.enemies[i])]]

(* Update, case StateStart.                                                 *)
updateStart(g, keys) ==
    LET g1 == IF KeySpace \in keys THEN [g EXCEPT !.state = StatePlaying] ELSE g
        g2 == [g1 EXCEPT !.startBlinkCounter = g1.startBlinkCounter + 1]
    IN IF g2.startBlinkCounter >= BLINK_PERIOD
       THEN [g2 EXCEPT !.startBlinkCounter = 0]
       ELSE g2

(* Faulty variant: the power-up timer runs down on movement ticks only.     *)
updatePlaying_TimerOnMove(g, keys) ==
    LET g1 == handleInput(g, keys)
        g2 == [g1 EXCEPT !.moveCounter = g1.moveCounter + 1]
        g3 == moveEnemies(moveSnake([g2 EXCEPT !.moveCounter = 0]))
    IN IF g2.moveCounter >= MOVE_INTERVAL
       THEN IF g3.powerUpTimer > 0
            THEN [g3 EXCEPT !.powerUpTimer = g3.powerUpTimer - 1]
            ELSE g3
       ELSE g2

(* Faulty variant: the keys are read on movement ticks only.                *)
updatePlaying_SamplesOnMove(g, keys) ==
    LET g2 == [g EXCEPT !.moveCounter = g.moveCounter + 1]
        g3 == IF g2.moveCounter >= MOVE_INTERVAL
              THEN moveEnemies(moveSnake(
                       [handleInput(g2, keys) EXCEPT !.moveCounter = 0]))
              ELSE g2
    IN IF g3.powerUpTimer > 0
       THEN [g3 EXCEPT !.powerUpTimer = g3.powerUpTimer - 1]
       ELSE g3

(* Update, case StatePlaying.                                               *)
updatePlaying(g, keys) ==
    LET g1 == handleInput(g, keys)
        g2 == [g1 EXCEPT !.moveCounter = g1.moveCounter + 1]
        g3 == IF g2.moveCounter >= MOVE_INTERVAL
              THEN moveEnemies(moveSnake([g2 EXCEPT !.moveCounter = 0]))
              ELSE g2
    IN IF g3.powerUpTimer > 0
       THEN [g3 EXCEPT !.powerUpTimer = g3.powerUpTimer - 1]
       ELSE g3

(* Faulty variant: the start key restarts a finished game as well.          *)
updateEnd_AnyKey(g, keys, l) ==
    IF KeyR \in keys \/ KeySpace \in keys
    THEN [NewGame(l) EXCEPT !.state = StatePlaying]
    ELSE g

(* Faulty variant: the restart carries the score over.                      *)
updateEnd_KeepsScore(g, keys, l) ==
    IF KeyR \in keys
    THEN [NewGame(l) EXCEPT !.state = StatePlaying, !.score = g.score]
    ELSE g

(* Faulty variant: the restart leaves the status NewGame sets, Start. *)
updateEnd_KeepsStart(g, keys, l) ==
    IF KeyR \in keys THEN NewGame(l) ELSE g

(* Update, case StateGameOver, StateWin.                                    *)
updateEnd(g, keys, l) ==
    IF KeyR \in keys THEN [NewGame(l) EXCEPT !.state = StatePlaying] ELSE g

-----------------------------------------------------------------------------
(* The state machine.                                                       *)

(* The fields of the Game a tick found, kept for the next state to compare. *)
Snapshot(g) ==
    [state |-> g.state, snake |-> g.snake, foods |-> g.foods,
     enemies |-> g.enemies, score |-> g.score, direction |-> g.direction,
     powerUpTimer |-> g.powerUpTimer, moveCounter |-> g.moveCounter,
     viewportX |-> g.viewportX]

Store(g) ==
    /\ snake' = g.snake
    /\ foods' = g.foods
    /\ exit' = g.exit
    /\ maze' = g.maze
    /\ mazeWidth' = g.mazeWidth
    /\ mazeHeight' = g.mazeHeight
    /\ direction' = g.direction
    /\ nextDirection' = g.nextDirection
    /\ score' = g.score
    /\ state' = g.state
    /\ viewportX' = g.viewportX
    /\ moveCounter' = g.moveCounter
    /\ enemies' = g.enemies
    /\ powerUpTimer' = g.powerUpTimer
    /\ startBlinkCounter' = g.startBlinkCounter
    /\ before' = Snapshot(Game)
    /\ cycles' = IF state # StatePlaying
                 THEN IF g.state = StatePlaying THEN 0 ELSE cycles
                 ELSE IF g.moveCounter = 0 /\ cycles < MaxCycles
                      THEN cycles + 1
                      ELSE cycles
    /\ applied' = IF state # StatePlaying
                  THEN IF g.state = StatePlaying THEN Point(0, 0) ELSE applied
                  ELSE IF g.moveCounter = 0 THEN g.direction ELSE applied
    /\ UNCHANGED <<level, exited>>

(* main: NewGame() on the level text; ebiten.RunGame, and with it Update,   *)
(* is reached only if loadLevel returned.                                   *)
Init ==
    /\ level \in Levels
    /\ exited = Loaded[level].fatal
    /\ snake = NewGame(level).snake
    /\ foods = NewGame(level).foods
    /\ exit = NewGame(level).exit
    /\ maze = NewGame(level).maze
    /\ mazeWidth = NewGame(level).mazeWidth
    /\ mazeHeight = NewGame(level).mazeHeight
    /\ direction = NewGame(level).direction
    /\ nextDirection = NewGame(level).nextDirection
    /\ score = NewGame(level).score
    /\ state = NewGame(level).state
    /\ viewportX = NewGame(level).viewportX
    /\ moveCounter = NewGame(level).moveCounter
    /\ enemies = NewGame(level).enemies
    /\ powerUpTimer = NewGame(level).powerUpTimer
    /\ startBlinkCounter = NewGame(level).startBlinkCounter
    /\ before = Snapshot(NewGame(level))
    /\ cycles = 0
    /\ applied = Point(0, 0)

(* One call of Update with the keys in `keys` down.                         *)
UpdateStart(keys) ==
    /\ state = StateStart
    /\ Store(updateStart(Game, keys))

UpdatePlaying(keys) ==
    /\ state = StatePlaying
    /\ Store(updatePlaying(Game, keys))

UpdateEnd(keys) ==
    /\ state \in {StateGameOver, StateWin}
    /\ Store(updateEnd(Game, keys, level))

Update(keys) == UpdateStart(keys) \/ UpdatePlaying(keys) \/ UpdateEnd(keys)

(* The player leaves the start screen within MaxStartWait ticks of a blink  *)
(* cycle's beginning, or on its last tick; no field read while Playing      *)
(* depends on when.                                                         *)
Pressable(keys) ==
    (state = StateStart /\ KeySpace \in keys)
        => (startBlinkCounter < MaxStartWait
            \/ startBlinkCounter = BLINK_PERIOD - 1)

Next == ~exited /\ \E keys \in Inputs : Pressable(keys) /\ Update(keys)

Spec == Init /\ [][Next]_vars

(* The game on the 10x3 corridor with no direction key ever down: the       *)
(* player only starts it, on any tick.                                      *)
ScenarioInputs == { {}, {KeySpace} }

ScenarioInit == Init /\ LevelTexts[level] = ScenarioText

ScenarioNext == ~exited /\ \E keys \in ScenarioInputs : Update(keys)

ScenarioSpec == ScenarioInit /\ [][ScenarioNext]_vars

-----------------------------------------------------------------------------
TypeOK ==
    /\ state \in GameState
    /\ moveCounter \in 0 .. (MOVE_INTERVAL - 1)
    /\ powerUpTimer \in 0 .. POWERUP_TIME
    /\ startBlinkCounter \in 0 .. (BLINK_PERIOD - 1)
    /\ exited \in BOOLEAN

-----------------------------------------------------------------------------
(* Vocabulary of the properties below.  A step of Update is a movement tick *)
(* when it starts in Playing with the move counter one short of the         *)
(* interval; in the state it leaves, `before` tells the same.               *)

MoveTick == state = StatePlaying /\ moveCounter = MOVE_INTERVAL - 1

Moved == before.state = StatePlaying /\ before.moveCounter = MOVE_INTERVAL - 1

(* The cell one step from p in direction d on the torus.                    *)
Torus(p, d) == Point((p.X + d.X) % mazeWidth, (p.Y + d.Y) % mazeHeight)

IsWall(p) == maze[p.Y][p.X]

(* The cells of a body other than its head.                                 *)
BodyCells(body) == {body[i] : i \in 2 .. Len(body)}

Positions(es) == [i \in 1 .. Len(es) |-> es[i].Position]

Opposite(d) == Point(-d.X, -d.Y)

Perpendicular(a, b) == a.X * b.X + a.Y * b.Y = 0

(* Within one movement tick: the head the snake tries, given the direction  *)
(* the tick commits (direction'), and what holds when checkEnemyCollision   *)
(* runs.                                                                     *)
Candidate == Torus(snake[1], direction')
EatsFood == \E i \in 1 .. Len(foods) : foods[i] = Candidate
TimerAtCheck == IF EatsFood THEN POWERUP_TIME ELSE powerUpTimer
ScoreAtCheck == IF EatsFood THEN score + 1 ELSE score

(* The power-up timer the enemies of a movement tick see: the snake's move  *)
(* precedes theirs.                                                          *)
TimerAtEnemyMove == IF Len(foods') < Len(foods) THEN POWERUP_TIME ELSE powerUpTimer

Edges ==
    { <<StateStart, StatePlaying>>, <<StatePlaying, StateGameOver>>,
      <<StatePlaying, StateWin>>, <<StateGameOver, StatePlaying>>,
      <<StateWin, StatePlaying>> }

-----------------------------------------------------------------------------
(* C1: Update changes the status only along Start->Playing,                 *)
(* Playing->GameOver, Playing->Win, GameOver->Playing and Win->Playing; it  *)
(* leaves Start only on a tick with the start key down and leaves GameOver  *)
(* or Win only on a tick with the restart key down; the status never        *)
(* returns to Start, and GameOver and Win never turn into one another.      *)
C1_StatusEdges ==
    [][ /\ state' # state => <<state, state'>> \in Edges
        /\ state # StateStart => state' # StateStart
        /\ \A keys \in Inputs :
              state = StateStart /\ state' = StatePlaying /\ Update(keys)
                  => KeySpace \in keys
        /\ \A keys \in Inputs :
              state \in {StateGameOver, StateWin} /\ state' # state /\ Update(keys)
                  => KeyR \in keys /\ state' = StatePlaying ]_vars

(* A game that was lost has been restarted.                                 *)
C1_Witness == before.state = StateGameOver /\ state = StatePlaying

-----------------------------------------------------------------------------
(* C2: on a movement tick that does not end on the exit, an enemy whose     *)
(* position after its move equals the snake's head ends the game (status    *)
(* GameOver at the end of the tick) when the power-up timer is 0, and is    *)
(* removed (so none is left on the head) when the timer is above 0.         *)
C2_EnemyStepChecked ==
    [][ (MoveTick /\ state' # StateWin)
            => \A i \in 1 .. Len(enemies') :
                  enemies'[i].Position = snake'[1]
                      => TimerAtEnemyMove = 0 /\ state' = StateGameOver ]_vars

-----------------------------------------------------------------------------
(* C3: on a movement tick whose new head is neither a wall nor a body cell  *)
(* nor the exit but is the cell of an enemy, checkEnemyCollision finds the  *)
(* first such enemy: with the timer above 0 when it runs, that enemy leaves *)
(* the list (the others keep their order and move at most one step), the    *)
(* score is 5 above what it was when the check ran (the tick's starting     *)
(* score, plus 1 if this move ate a food) and the status stays Playing;     *)
(* with the timer at 0 the status is GameOver and no enemy is removed.      *)
C3_Near(p, q) == p = q \/ \E n \in 1 .. Len(possibleMoves) : Torus(p, possibleMoves[n]) = q

C3_HeadOnEnemy ==
    [][ ( /\ MoveTick
          /\ ~IsWall(Candidate)
          /\ Candidate \notin BodyCells(snake)
          /\ Candidate # exit
          /\ \E i \in 1 .. Len(enemies) : enemies[i].Position = Candidate )
        => LET hit == CHOOSE i \in 1 .. Len(enemies) :
                         /\ enemies[i].Position = Candidate
                         /\ \A j \in 1 .. (i - 1) : enemies[j].Position # Candidate
               rest == [n \in 1 .. (Len(enemies) - 1) |->
                          IF n < hit THEN enemies[n] ELSE enemies[n + 1]]
           IN IF TimerAtCheck > 0
              THEN /\ Len(enemies') = Len(enemies) - 1
                   /\ \A n \in 1 .. Len(rest) :
                         C3_Near(rest[n].Position, enemies'[n].Position)
                   /\ score' = ScoreAtCheck + 5
                   /\ state' = StatePlaying
              ELSE /\ state' = StateGameOver
                   /\ Len(enemies') = Len(enemies) ]_vars

(* A powered snake has just eaten an enemy and plays on.                    *)
C3_Witness ==
    /\ Moved
    /\ state = StatePlaying
    /\ Len(enemies) = Len(before.enemies) - 1
    /\ \E i \in 1 .. Len(before.enemies) : before.enemies[i].Position = snake[1]
    /\ score >= before.score + 5

-----------------------------------------------------------------------------
(* C4: on a movement tick whose wrapped candidate head is a wall cell or a  *)
(* cell of the pre-move body other than the head (the tail cell included),  *)
(* the status becomes GameOver and the snake, the food list and the score   *)
(* are as they were.                                                        *)
C4_CollisionLoses ==
    [][ (MoveTick /\ (IsWall(Candidate) \/ Candidate \in BodyCells(snake)))
            => /\ state' = StateGameOver
               /\ snake' = snake
               /\ foods' = foods
               /\ score' = score ]_vars

(* The snake has just run into the last cell of its own body.               *)
C4_Witness ==
    /\ Moved
    /\ state = StateGameOver
    /\ Len(snake) >= 2
    /\ snake = before.snake
    /\ Torus(snake[1], direction) = snake[Len(snake)]

-----------------------------------------------------------------------------
(* C5: on a movement tick whose candidate head is the exit cell the status  *)
(* becomes Win, whatever the foods left, the timer and the enemies (one     *)
(* standing on the exit included), and the tick removes no food, leaves the *)
(* score alone and removes no enemy.                                        *)
C5_ExitWins ==
    [][ (MoveTick /\ Candidate = exit)
            => /\ state' = StateWin
               /\ snake'[1] = exit
               /\ foods' = foods
               /\ score' = score
               /\ Len(enemies') = Len(enemies) ]_vars

(* The game was won by stepping onto an exit on which an enemy stood while  *)
(* no power-up was active and a food was still uneaten.                     *)
C5_Witness ==
    /\ Moved
    /\ state = StateWin
    /\ before.powerUpTimer = 0
    /\ foods # <<>>
    /\ \E i \in 1 .. Len(before.enemies) : before.enemies[i].Position = exit

-----------------------------------------------------------------------------
(* C6: in every reachable state the snake's length is 1 plus the number of  *)
(* foods eaten since the last (re)start, the state left by the winning tick *)
(* included.                                                                *)
C6_GrowthInvariant ==
    Len(snake) = 1 + (Len(Loaded[level].foods) - Len(foods))

-----------------------------------------------------------------------------
(* C7: on a movement tick with committed direction d and buffered direction *)
(* b (the buffer as handleInput leaves it on that tick): if b is the exact  *)
(* negation of d the move is made in direction d, if b is perpendicular to  *)
(* d the move is made in direction b; and the direction of the move is      *)
(* never the negation of d, the direction of the move before it.            *)
C7_ReversalGuard ==
    [][ MoveTick
            => /\ nextDirection' = Opposite(direction) => direction' = direction
               /\ Perpendicular(nextDirection', direction)
                      => direction' = nextDirection'
               /\ direction' # Opposite(direction) ]_vars

(* The snake has just turned by a quarter and stepped in the new direction. *)
C7_Witness ==
    /\ Moved
    /\ state = StatePlaying
    /\ Perpendicular(direction, before.direction)
    /\ snake[1] = Torus(before.snake[1], direction)

-----------------------------------------------------------------------------
(* C8: every cell of the snake lies inside the grid, and a movement tick    *)
(* that does not collide puts the head at ((head.x + d.x) mod width,        *)
(* (head.y + d.y) mod height) for the committed direction d.                *)
C8_WrapCorrect ==
    /\ [](\A i \in 1 .. Len(snake) :
             snake[i].X \in 0 .. (mazeWidth - 1) /\ snake[i].Y \in 0 .. (mazeHeight - 1))
    /\ [][ (MoveTick /\ ~IsWall(Candidate) /\ Candidate \notin BodyCells(snake))
               => snake'[1] = Candidate ]_vars

(* The head has just left the last column of a level at least three wide    *)
(* and re-entered at column 0 of the same row.                              *)
C8_Witness ==
    /\ Moved
    /\ mazeWidth >= 3
    /\ before.snake[1].X = mazeWidth - 1
    /\ snake[1] = Point(0, before.snake[1].Y)

-----------------------------------------------------------------------------
(* The enemy heuristic as the claims state it.                              *)

Dist2(p, q) == (p.X - q.X) * (p.X - q.X) + (p.Y - q.Y) * (p.Y - q.Y)

Dest(e, n) == Torus(e, possibleMoves[n])

OpenMoves(e) == {n \in 1 .. Len(possibleMoves) : ~IsWall(Dest(e, n))}

(* No destination of e lies on a cell of the body other than the head.      *)
ClearOfBody(e, body) ==
    \A n \in 1 .. Len(possibleMoves) : Dest(e, n) \notin BodyCells(body)

(* The destination of the first open move at minimal distance from head.    *)
PursuitTarget(e, head) ==
    IF OpenMoves(e) = {}
    THEN e
    ELSE Dest(e, CHOOSE n \in OpenMoves(e) :
                    /\ \A m \in OpenMoves(e) :
                          Dist2(Dest(e, n), head) <= Dist2(Dest(e, m), head)
                    /\ \A m \in OpenMoves(e) :
                          m < n => Dist2(Dest(e, m), head) > Dist2(Dest(e, n), head))

(* The destination of the first open move at maximal distance from head.    *)
EvasionTarget(e, head) ==
    IF OpenMoves(e) = {}
    THEN e
    ELSE Dest(e, CHOOSE n \in OpenMoves(e) :
                    /\ \A m \in OpenMoves(e) :
                          Dist2(Dest(e, n), head) >= Dist2(Dest(e, m), head)
                    /\ \A m \in OpenMoves(e) :
                          m < n => Dist2(Dest(e, m), head) < Dist2(Dest(e, n), head))

(* The enemies a movement tick's moveEnemies starts from: the list of the   *)
(* tick's start, less the one the snake has just eaten, if any.             *)
EnemiesAtMove ==
    IF /\ ~IsWall(Candidate)
       /\ Candidate \notin BodyCells(snake)
       /\ Candidate # exit
       /\ TimerAtEnemyMove > 0
       /\ \E i \in 1 .. Len(enemies) : enemies[i].Position = Candidate
    THEN LET hit == CHOOSE i \in 1 .. Len(enemies) :
                        /\ enemies[i].Position = Candidate
                        /\ \A j \in 1 .. (i - 1) : enemies[j].Position # Candidate
         IN [n \in 1 .. (Len(enemies) - 1) |->
                IF n < hit THEN enemies[n] ELSE enemies[n + 1]]
    ELSE enemies

-----------------------------------------------------------------------------
(* C9: on a movement tick whose enemies move with the power-up timer at 0,  *)
(* every enemy none of whose four destinations lies on the snake's body     *)
(* ends on the wrapped destination of the first move, in the order right,   *)
(* left, down, up, that is not a wall and is nearest to the snake's current *)
(* head, and stays where it is if all four destinations are walls.          *)
C9_Pursuit ==
    [][ (MoveTick /\ TimerAtEnemyMove = 0)
            => /\ Len(enemies') = Len(enemies)
               /\ \A i \in 1 .. Len(enemies) :
                     ClearOfBody(enemies[i].Position, snake')
                         => enemies'[i].Position
                                = PursuitTarget(enemies[i].Position, snake'[1]) ]_vars

(* An un-powered enemy had two open destinations equally near the head and  *)
(* has just taken the one that comes first in the order.                    *)
C9_Witness ==
    /\ Moved
    /\ powerUpTimer = 0
    /\ Len(enemies) = Len(before.enemies)
    /\ \E i \in 1 .. Len(enemies) :
          LET e == before.enemies[i].Position
          IN /\ ClearOfBody(e, snake)
             /\ enemies[i].Position # e
             /\ \E n, m \in OpenMoves(e) :
                   /\ n < m
                   /\ Dest(e, n) = enemies[i].Position
                   /\ Dest(e, m) # Dest(e, n)
                   /\ Dist2(Dest(e, m), snake[1]) = Dist2(Dest(e, n), snake[1])

-----------------------------------------------------------------------------
(* C10: on a movement tick whose enemies move with the power-up timer above *)
(* 0, every enemy none of whose four destinations lies on the snake's body  *)
(* ends on the wrapped destination of the first move, in the order right,   *)
(* left, down, up, that is not a wall and is farthest from the snake's      *)
(* head; it stays in place only if all four destinations are walls.         *)
C10_Evasion ==
    [][ (MoveTick /\ TimerAtEnemyMove > 0)
            => /\ Len(enemies') = Len(EnemiesAtMove)
               /\ \A i \in 1 .. Len(EnemiesAtMove) :
                     ClearOfBody(EnemiesAtMove[i].Position, snake')
                         => enemies'[i].Position
                                = EvasionTarget(EnemiesAtMove[i].Position, snake'[1]) ]_vars

-----------------------------------------------------------------------------
(* The destination moveEnemy would pick if only walls were discarded.       *)
WallsOnlyTarget(e, head) ==
    IF TimerAtEnemyMove > 0 THEN EvasionTarget(e, head) ELSE PursuitTarget(e, head)

(* C11: on a movement tick an enemy's destination is discarded only when it *)
(* is a wall: an enemy whose best non-wall destination lies on a segment of *)
(* the snake's body other than the head, or on another enemy, moves onto    *)
(* it.                                                                      *)
C11_OnlyWallsBlock ==
    [][ MoveTick
            => /\ Len(enemies') = Len(EnemiesAtMove)
               /\ \A i \in 1 .. Len(EnemiesAtMove) :
                     LET target == WallsOnlyTarget(EnemiesAtMove[i].Position,
                                                   snake'[1])
                     IN (/\ target # snake'[1]
                         /\ \/ target \in BodyCells(snake')
                            \/ \E j \in 1 .. Len(EnemiesAtMove) :
                                  j # i /\ EnemiesAtMove[j].Position = target)
                            => enemies'[i].Position = target ]_vars

-----------------------------------------------------------------------------
(* C12: in every state the viewport offset is at least 0, so that no column *)
(* x + viewportX the renderer reads is negative, and it is at most          *)
(* mazeWidth - VIEWPORT_WIDTH in a level at least as wide as the viewport   *)
(* (in a narrower level no offset is both >= 0 and <= that difference).     *)
C12_ViewportInRange ==
    /\ viewportX >= 0
    /\ mazeWidth >= VIEWPORT_WIDTH => viewportX <= mazeWidth - VIEWPORT_WIDTH

-----------------------------------------------------------------------------
(* The cells of the level text that hold the character c.                   *)
TextCells(c) ==
    {p \in {Point(x, y) : x \in 0 .. (mazeWidth - 1), y \in 0 .. (mazeHeight - 1)} :
        LevelTexts[level][p.Y + 1][p.X + 1] = c}

(* s lists its cells row by row, each row left to right, none twice.        *)
RowMajor(s) ==
    \A i, j \in 1 .. Len(s) :
        i < j => \/ s[i].Y < s[j].Y
                 \/ s[i].Y = s[j].Y /\ s[i].X < s[j].X

(* s is the list loadLevel builds of the cells holding c.                   *)
ListsCells(s, c) == RowMajor(s) /\ {s[i] : i \in 1 .. Len(s)} = TextCells(c)

(* C13: a tick that finds the status GameOver or Win and the restart key    *)
(* down leaves the status Playing with the score, the power-up timer, the   *)
(* move counter and the viewport offset 0, the snake the single entrance    *)
(* cell, the committed and the buffered direction (1,0), the food list the  *)
(* level's full food list and the enemies on the level's spawn cells.       *)
C13_RestartFresh ==
    [][ \A keys \in Inputs :
          (state \in {StateGameOver, StateWin} /\ KeyR \in keys /\ Update(keys))
              => /\ state' = StatePlaying
                 /\ score' = 0
                 /\ powerUpTimer' = 0
                 /\ moveCounter' = 0
                 /\ viewportX' = 0
                 /\ Len(snake') = 1
                 /\ snake'[1] \in TextCells("S")'
                 /\ direction' = Point(1, 0)
                 /\ nextDirection' = Point(1, 0)
                 /\ ListsCells(foods, "F")'
                 /\ ListsCells(Positions(enemies), "X")' ]_vars

(* A game that had scored, grown, eaten food and an enemy and shifted its   *)
(* direction has been restarted.                                            *)
C13_Witness ==
    /\ before.state \in {StateGameOver, StateWin}
    /\ state = StatePlaying
    /\ before.score > 0
    /\ Len(before.snake) > 1
    /\ Len(before.foods) < Len(foods)
    /\ Len(before.enemies) < Len(enemies)
    /\ before.direction # direction
    /\ before.powerUpTimer > 0

-----------------------------------------------------------------------------
(* C14: on the 10x3 corridor with no direction key ever down, once the      *)
(* fifth movement cycle is over the head is at (5,1), the score 1, the      *)
(* snake 2 long and the food list empty; once the ninth is over the head is *)
(* at (9,1) and the status Win; from the start until then the status is     *)
(* Playing after every tick.                                                *)
C14_Scenario ==
    /\ cycles = 5
          => /\ snake[1] = Point(5, 1)
             /\ score = 1
             /\ Len(snake) = 2
             /\ foods = <<>>
    /\ cycles = 9 => snake[1] = Point(9, 1) /\ state = StateWin
    /\ (state # StateStart /\ cycles < 9) => state = StatePlaying
    /\ state = StateWin => cycles = 9

(* The ninth movement cycle of the scenario is over.                        *)
C14_Witness == cycles = 9 /\ state = StateWin /\ score = 1

-----------------------------------------------------------------------------
(* What a Playing tick with the keys in `keys` down leaves in the buffered  *)
(* direction: a key of the axis the snake is not moving along replaces it,  *)
(* right before left and down before up; a key of the snake's own axis is   *)
(* ignored.                                                                 *)
Sampled(keys) ==
    IF direction.X = 0
    THEN IF KeyArrowRight \in keys THEN Point(1, 0)
         ELSE IF KeyArrowLeft \in keys THEN Point(-1, 0)
         ELSE nextDirection
    ELSE IF KeyArrowDown \in keys THEN Point(0, 1)
         ELSE IF KeyArrowUp \in keys THEN Point(0, -1)
         ELSE nextDirection

(* The snake's part of a movement tick: one step onto Candidate, or none.   *)
OneSnakeMove ==
    IF IsWall(Candidate) \/ Candidate \in BodyCells(snake)
    THEN snake' = snake
    ELSE \/ snake' = <<Candidate>> \o snake
         \/ snake' = <<Candidate>> \o SubSeq(snake, 1, Len(snake) - 1)

(* The enemies' part: each enemy the snake has left is at most one step     *)
(* from where it was, and on no wall.                                       *)
OneMoveEach ==
    /\ Len(enemies') = Len(EnemiesAtMove)
    /\ \A i \in 1 .. Len(EnemiesAtMove) :
          LET e == EnemiesAtMove[i].Position
          IN \/ enemies'[i].Position = e
             \/ \E n \in OpenMoves(e) : enemies'[i].Position = Dest(e, n)

(* C15: while Playing the move counter is in 0..9 after every tick; a       *)
(* Playing tick adds one to it modulo 10; a tick that does not bring it to  *)
(* 10 leaves the snake and the enemies as they were; the tick that does     *)
(* resets it to 0 and makes one move of the snake and then one of each      *)
(* enemy; every Playing tick, movement tick or not, samples the direction   *)
(* keys into the buffered direction.                                        *)
C15_Cadence ==
    /\ [](state = StatePlaying => moveCounter \in 0 .. (MOVE_INTERVAL - 1))
    /\ [][ state = StatePlaying
             => /\ moveCounter' = (moveCounter + 1) % MOVE_INTERVAL
                /\ moveCounter + 1 < MOVE_INTERVAL
                      => snake' = snake /\ enemies' = enemies
                /\ moveCounter + 1 = MOVE_INTERVAL
                      => OneSnakeMove /\ OneMoveEach
                /\ \A keys \in Inputs :
                      nextDirection' # Sampled(keys) => ~Update(keys) ]_vars

(* A direction key was sampled on a tick that made no move: the buffered    *)
(* direction differs from the committed one in the middle of an interval.   *)
C15_Witness ==
    /\ state = StatePlaying
    /\ before.state = StatePlaying
    /\ before.moveCounter < MOVE_INTERVAL - 1
    /\ moveCounter = before.moveCounter + 1
    /\ snake = before.snake
    /\ nextDirection # direction

-----------------------------------------------------------------------------
(* What a Playing tick does to the power-up timer: a tick that eats a food  *)
(* leaves it one below POWERUP_TIME, any other tick takes one off it unless *)
(* it is 0 already.                                                         *)
TimerRunsWhilePlaying ==
    state = StatePlaying
        => powerUpTimer' = IF Len(foods') < Len(foods)
                           THEN POWERUP_TIME - 1
                           ELSE IF powerUpTimer > 0
                                THEN powerUpTimer - 1
                                ELSE 0

-----------------------------------------------------------------------------
(* A viewport offset clamped to [0, mazeWidth - VIEWPORT_WIDTH].            *)
ClampToLevel(v) ==
    IF v < 0
    THEN 0
    ELSE IF v > mazeWidth - VIEWPORT_WIDTH THEN mazeWidth - VIEWPORT_WIDTH ELSE v

(* The movement tick runs moveSnake to its end: the snake steps onto a cell *)
(* that is no wall, no part of its body and not the exit.                   *)
CompletesMove ==
    /\ MoveTick
    /\ ~IsWall(Candidate)
    /\ Candidate \notin BodyCells(snake)
    /\ Candidate # exit

(* C17: on a movement tick that completes the snake's move, with rel the    *)
(* new head's column less the offset: if VIEWPORT_WIDTH/4 <= rel <=         *)
(* 3*VIEWPORT_WIDTH/4 the offset is unchanged; if rel is above, the offset  *)
(* becomes the head's column less 3*VIEWPORT_WIDTH/4, clamped; if rel is    *)
(* below, the head's column less VIEWPORT_WIDTH/4, clamped; a Playing tick  *)
(* that is no movement tick leaves the offset unchanged.                    *)
C17_DeadZone ==
    [][ state = StatePlaying
          => /\ ~MoveTick => viewportX' = viewportX
             /\ CompletesMove
                   => LET rel == Candidate.X - viewportX
                          low == VIEWPORT_WIDTH \div 4
                          high == (3 * VIEWPORT_WIDTH) \div 4
                      IN /\ (low <= rel /\ rel <= high)
                               => viewportX' = viewportX
                         /\ rel > high
                               => viewportX' = ClampToLevel(Candidate.X - high)
                         /\ rel < low
                               => viewportX' = ClampToLevel(Candidate.X - low) ]_vars

-----------------------------------------------------------------------------
(* C18: loadLevel ends in log.Fatal exactly when the level text has no 'S'  *)
(* cell, or no 'E' cell, or no 'F' cell, wherever the cells it has are      *)
(* placed; the game an accepted level starts has its snake on an 'S' cell   *)
(* and its exit on an 'E' cell, neither of them a wall, and a food list     *)
(* that is not empty.                                                       *)
C18_LevelValidation ==
    state = StateStart
        => /\ exited <=> \/ TextCells("S") = {}
                         \/ TextCells("E") = {}
                         \/ TextCells("F") = {}
           /\ ~exited
                 => /\ Len(snake) = 1
                    /\ snake[1] \in TextCells("S")
                    /\ ~IsWall(snake[1])
                    /\ exit \in TextCells("E")
                    /\ ~IsWall(exit)
                    /\ foods # <<>>

(* A level with an entrance and an exit was rejected for its lack of food.  *)
C18_Witness ==
    /\ exited
    /\ TextCells("S") # {}
    /\ TextCells("E") # {}
    /\ TextCells("F") = {}

-----------------------------------------------------------------------------
(* C19: on a movement tick on which the snake's step runs into a wall or    *)
(* into its own body, so that the status becomes GameOver, nothing else of  *)
(* the cycle happens: every enemy is where it was and the viewport offset   *)
(* is unchanged.                                                            *)
C19_CollisionEndsCycle ==
    [][ (MoveTick /\ (IsWall(Candidate) \/ Candidate \in BodyCells(snake)))
            => /\ state' = StateGameOver
               /\ enemies' = enemies
               /\ viewportX' = viewportX ]_vars

-----------------------------------------------------------------------------
(* The fields of the Game other than the status and the blink counter.      *)
PlayFields ==
    <<snake, foods, exit, direction, nextDirection, score, maze, viewportX,
      mazeWidth, mazeHeight, moveCounter, enemies, powerUpTimer>>

(* C20: a tick that finds the status GameOver or Win changes a field only   *)
(* if the restart key is down; a tick that finds the status Start changes   *)
(* only the blink counter, which it steps through 0..59, and the status,    *)
(* which it sets to Playing exactly when the start key is down, whatever    *)
(* direction keys are down; outside Start a tick with the start key down    *)
(* does what it does without it, and so does, while Playing, a tick with    *)
(* the restart key down.                                                    *)
C20_IdleTicks ==
    /\ [](state = StateStart => startBlinkCounter \in 0 .. 59)
    /\ [][ /\ \A keys \in Inputs :
                 (/\ state \in {StateGameOver, StateWin}
                  /\ \/ PlayFields' # PlayFields
                     \/ state' # state
                     \/ startBlinkCounter' # startBlinkCounter
                  /\ Update(keys))
                     => KeyR \in keys
           /\ state = StateStart
                 => /\ PlayFields' = PlayFields
                    /\ startBlinkCounter' = (startBlinkCounter + 1) % 60
                    /\ \A keys \in Inputs :
                          Update(keys)
                              => (state' = StatePlaying <=> KeySpace \in keys)
                    /\ \A keys \in Inputs :
                          Update(keys) => state' \in {StateStart, StatePlaying}
           /\ \A keys \in Inputs :
                 (state # StateStart /\ KeySpace \in keys /\ Update(keys))
                     => Update(keys \ {KeySpace})
           /\ \A keys \in Inputs :
                 (state = StatePlaying /\ KeyR \in keys /\ Update(keys))
                     => Update(keys \ {KeyR}) ]_vars

(* A game won with the power-up still running has sat through a tick and    *)
(* kept its timer.                                                          *)
C20_Witness ==
    /\ before.state = StateWin
    /\ state = StateWin
    /\ powerUpTimer > 0
    /\ powerUpTimer = before.powerUpTimer
    /\ score = before.score

-----------------------------------------------------------------------------
(* The refactored State/Snake variant (src/unnamed/part_000, lines 304 on). *)
(* Its global `state` and `startBlinkCounter` are held in the variables of  *)
(* the Game above: snake is Snake.body, direction is Snake.prevDirection,   *)
(* nextDirection is Snake.direction, moveCounter is                         *)
(* Snake.framesSinceLastMove, state is State.status, and foods, maze, exit, *)
(* mazeWidth and mazeHeight are the Level's foods, walls, exit, width and   *)
(* height.  The variant has no enemies.                                     *)

StatusStarted == StateStart
StatusPlaying == StatePlaying
StatusLost == StateGameOver
StatusWon == StateWin

(* NewLevel: the parse, and whether it called log.Fatal; entrance and exit  *)
(* are tested against Go's zero Vec2.                                       *)
NewLevel(lines) ==
    LET starts == CellsOf(lines, "S")
        exits == CellsOf(lines, "E")
        entrance == IF starts = <<>> THEN Point(0, 0) ELSE starts[Len(starts)]
        exit_ == IF exits = <<>> THEN Point(0, 0) ELSE exits[Len(exits)]
    IN [height |-> Len(lines),
        width |-> Len(lines[1]),
        walls |-> [y \in 0 .. (Len(lines) - 1) |->
                     [x \in 0 .. (Len(lines[1]) - 1) |->
                         CharAt(lines, Point(x, y)) = "#"]],
        foods |-> CellsOf(lines, "F"),
        entrance |-> entrance,
        exit |-> exit_,
        fatal |-> (\/ entrance = Point(0, 0)
                   \/ exit_ = Point(0, 0)
                   \/ CellsOf(lines, "F") = <<>>)]

(* NewState with NewSnake(level.entrance); startBlinkCounter is a global of *)
(* its own, which NewState does not touch.                                  *)
NewState(l, blink) ==
    LET lv == NewLevel(LevelTexts[l])
    IN [snake |-> <<lv.entrance>>, foods |-> lv.foods, exit |-> lv.exit,
        direction |-> Point(1, 0), nextDirection |-> Point(0, 0),
        score |-> 0, state |-> StatusStarted, maze |-> lv.walls,
        viewportX |-> 0, mazeWidth |-> lv.width, mazeHeight |-> lv.height,
        moveCounter |-> 0, enemies |-> <<>>, powerUpTimer |-> 0,
        startBlinkCounter |-> blink]

Snake_createHead(g) ==
    Point((g.snake[1].X + g.direction.X + g.mazeWidth) % g.mazeWidth,
          (g.snake[1].Y + g.direction.Y + g.mazeHeight) % g.mazeHeight)

Snake_checkCollision(g, head) ==
    IF \/ g.maze[head.Y][head.X]
       \/ \E i \in 2 .. Len(g.snake) : g.snake[i] = head
    THEN [g EXCEPT !.state = StatusLost]
    ELSE g

Snake_eatFood(g) ==
    LET i == FirstIndex(g.foods, g.snake[1])
    IN IF i # 0
       THEN [g EXCEPT !.foods = RemoveAt(g.foods, i),
                      !.score = g.score + 1,
                      !.powerUpTimer = POWERUP_TIME]
       ELSE [g EXCEPT !.snake = SubSeq(g.snake, 1, Len(g.snake) - 1)]

(* Snake.move: checkCollision only sets the status; the move goes on.       *)
Snake_move(g) ==
    LET g1 == [g EXCEPT !.moveCounter = g.moveCounter + 1]
        g2 == [g1 EXCEPT !.moveCounter = 0]
        g3 == IF \/ g2.nextDirection.X # -g2.direction.X
                 \/ g2.nextDirection.Y # -g2.direction.Y
              THEN [g2 EXCEPT !.direction = g2.nextDirection]
              ELSE g2
        newHead == Snake_createHead(g3)
        g4 == Snake_checkCollision(g3, newHead)
        g5 == [g4 EXCEPT !.snake = <<newHead>> \o g4.snake]
    IN IF g1.moveCounter < MOVE_INTERVAL
       THEN g1
       ELSE IF newHead = g5.exit
            THEN [g5 EXCEPT !.state = StatusWon]
            ELSE Snake_eatFood(g5)

(* The variant's handleInput: each key is tested against prevDirection and  *)
(* written to Snake.direction.                                              *)
handleInputState(g, keys) ==
    LET g1 == pressKey(g, keys, KeyArrowLeft, g.direction.X = 0, Point(-1, 0))
        g2 == pressKey(g1, keys, KeyArrowRight, g1.direction.X = 0, Point(1, 0))
        g3 == pressKey(g2, keys, KeyArrowUp, g2.direction.Y = 0, Point(0, -1))
    IN pressKey(g3, keys, KeyArrowDown, g3.direction.Y = 0, Point(0, 1))

updateViewport(g) ==
    LET head == g.snake[1]
        shifted ==
            IF head.X - g.viewportX > (VIEWPORT_WIDTH * 3) \div 4
            THEN head.X - (VIEWPORT_WIDTH * 3) \div 4
            ELSE IF head.X - g.viewportX < VIEWPORT_WIDTH \div 4
                 THEN head.X - VIEWPORT_WIDTH \div 4
                 ELSE g.viewportX
    IN [g EXCEPT !.viewportX =
                     IF shifted < 0
                     THEN 0
                     ELSE IF shifted > g.mazeWidth - VIEWPORT_WIDTH
                          THEN g.mazeWidth - VIEWPORT_WIDTH
                          ELSE shifted]

updateStartState(g, keys) ==
    LET g1 == IF KeySpace \in keys THEN [g EXCEPT !.state = StatusPlaying] ELSE g
    IN [g1 EXCEPT !.startBlinkCounter = (g1.startBlinkCounter + 1) % BLINK_PERIOD]

updatePlayingState(g, keys) ==
    LET g1 == updateViewport(Snake_move(handleInputState(g, keys)))
    IN IF g1.powerUpTimer > 0
       THEN [g1 EXCEPT !.powerUpTimer = g1.powerUpTimer - 1]
       ELSE g1

updateEndState(g, keys, l) ==
    IF KeyR \in keys
    THEN [NewState(l, g.startBlinkCounter) EXCEPT !.state = StatusPlaying]
    ELSE g

(* var state State = NewState(), then ebiten.RunGame.                       *)
StateInit ==
    /\ level \in Levels
    /\ exited = NewLevel(LevelTexts[level]).fatal
    /\ snake = NewState(level, 0).snake
    /\ foods = NewState(level, 0).foods
    /\ exit = NewState(level, 0).exit
    /\ maze = NewState(level, 0).maze
    /\ mazeWidth = NewState(level, 0).mazeWidth
    /\ mazeHeight = NewState(level, 0).mazeHeight
    /\ direction = NewState(level, 0).direction
    /\ nextDirection = NewState(level, 0).nextDirection
    /\ score = NewState(level, 0).score
    /\ state = NewState(level, 0).state
    /\ viewportX = NewState(level, 0).viewportX
    /\ moveCounter = NewState(level, 0).moveCounter
    /\ enemies = NewState(level, 0).enemies
    /\ powerUpTimer = NewState(level, 0).powerUpTimer
    /\ startBlinkCounter = NewState(level, 0).startBlinkCounter
    /\ before = Snapshot(NewState(level, 0))
    /\ cycles = 0
    /\ applied = Point(0, 0)

(* One call of the variant's Update with the keys in `keys` down.           *)
StateUpdate(keys) ==
    \/ state = StatusStarted /\ Store(updateStartState(Game, keys))
    \/ state = StatusPlaying /\ Store(updatePlayingState(Game, keys))
    \/ state \in {StatusLost, StatusWon} /\ Store(updateEndState(Game, keys, level))

StateNext == ~exited /\ \E keys \in Inputs : Pressable(keys) /\ StateUpdate(keys)

StateSpec == StateInit /\ [][StateNext]_vars

-----------------------------------------------------------------------------
(* C21: in the State/Snake variant, on a movement tick whose candidate head *)
(* is a wall or a cell of the body other than the head, the status becomes  *)
(* Lost and the body is after the tick what it was before it.               *)
C21_CollisionKeepsBody ==
    [][ (MoveTick /\ (IsWall(Candidate) \/ Candidate \in BodyCells(snake)))
            => state' = StatusLost /\ snake' = snake ]_vars

-----------------------------------------------------------------------------
(* The earliest variant (src/unnamed/part_000, lines 1-302): a Game with no *)
(* buffered direction, no enemies, no power-up and no blink counter; those  *)
(* variables keep the values given here.  Its loadLevel checks nothing; the *)
(* level texts used are those with an entrance.                             *)

loadLevel0(lines) ==
    LET starts == CellsOf(lines, "S")
        exits == CellsOf(lines, "E")
    IN [mazeHeight |-> Len(lines),
        mazeWidth |-> Len(lines[1]),
        maze |-> [y \in 0 .. (Len(lines) - 1) |->
                    [x \in 0 .. (Len(lines[1]) - 1) |->
                        CharAt(lines, Point(x, y)) = "#"]],
        foods |-> CellsOf(lines, "F"),
        snake |-> IF starts = <<>> THEN <<>> ELSE <<starts[Len(starts)]>>,
        exit |-> IF exits = <<>> THEN Point(0, 0) ELSE exits[Len(exits)]]

NewGame0(l) ==
    LET loaded == loadLevel0(LevelTexts[l])
    IN [snake |-> loaded.snake, foods |-> loaded.foods, exit |-> loaded.exit,
        direction |-> Point(1, 0), nextDirection |-> Point(0, 0),
        score |-> 0, state |-> StateStart, maze |-> loaded.maze,
        viewportX |-> 0, mazeWidth |-> loaded.mazeWidth,
        mazeHeight |-> loaded.mazeHeight, moveCounter |-> 0,
        enemies |-> <<>>, powerUpTimer |-> 0, startBlinkCounter |-> 0]

(* Every cell of the snake counts, the head too.                            *)
isCollision0(g, p) ==
    \/ g.maze[p.Y][p.X]
    \/ \E i \in 1 .. Len(g.snake) : g.snake[i] = p

pressKey0(g, keys, key, axisFree, d) ==
    IF key \in keys /\ axisFree THEN [g EXCEPT !.direction = d] ELSE g

(* handleInput writes g.direction itself, each key tested against the       *)
(* direction as the keys before it have left it.                            *)
handleInput0(g, keys) ==
    LET g1 == pressKey0(g, keys, KeyArrowLeft, g.direction.X = 0, Point(-1, 0))
        g2 == pressKey0(g1, keys, KeyArrowRight, g1.direction.X = 0, Point(1, 0))
        g3 == pressKey0(g2, keys, KeyArrowUp, g2.direction.Y = 0, Point(0, -1))
    IN pressKey0(g3, keys, KeyArrowDown, g3.direction.Y = 0, Point(0, 1))

moveSnake0(g) ==
    LET newHead == Point((g.snake[1].X + g.direction.X + g.mazeWidth) % g.mazeWidth,
                         (g.snake[1].Y + g.direction.Y + g.mazeHeight) % g.mazeHeight)
        g1 == [g EXCEPT !.snake = <<newHead>> \o g.snake]
        i == FirstIndex(g1.foods, newHead)
        g2 == IF i # 0
              THEN [g1 EXCEPT !.score = g1.score + 1,
                              !.foods = RemoveAt(g1.foods, i)]
              ELSE [g1 EXCEPT !.snake = SubSeq(g1.snake, 1, Len(g1.snake) - 1)]
        g3 == IF newHead.X - g2.viewportX > VIEWPORT_WIDTH \div 2
              THEN [g2 EXCEPT !.viewportX = newHead.X - VIEWPORT_WIDTH \div 2]
              ELSE g2
    IN IF isCollision0(g, newHead)
       THEN [g EXCEPT !.state = StateGameOver]
       ELSE IF newHead = g.exit
            THEN [g1 EXCEPT !.state = StateWin]
            ELSE IF g3.viewportX > g3.mazeWidth - VIEWPORT_WIDTH
                 THEN [g3 EXCEPT !.viewportX = g3.mazeWidth - VIEWPORT_WIDTH]
                 ELSE g3

(* The variant's Update.                                                    *)
update0(g, keys, l) ==
    IF g.state = StateStart
    THEN IF KeySpace \in keys THEN [g EXCEPT !.state = StatePlaying] ELSE g
    ELSE IF g.state = StatePlaying
         THEN LET g1 == handleInput0(g, keys)
                  g2 == [g1 EXCEPT !.moveCounter = g1.moveCounter + 1]
              IN IF g2.moveCounter >= MOVE_INTERVAL
                 THEN moveSnake0([g2 EXCEPT !.moveCounter = 0])
                 ELSE g2
         ELSE IF KeyR \in keys
              THEN [NewGame0(l) EXCEPT !.state = StatePlaying]
              ELSE g

Init0 ==
    /\ level \in Levels
    /\ loadLevel0(LevelTexts[level]).snake # <<>>
    /\ exited = FALSE
    /\ snake = NewGame0(level).snake
    /\ foods = NewGame0(level).foods
    /\ exit = NewGame0(level).exit
    /\ maze = NewGame0(level).maze
    /\ mazeWidth = NewGame0(level).mazeWidth
    /\ mazeHeight = NewGame0(level).mazeHeight
    /\ direction = NewGame0(level).direction
    /\ nextDirection = NewGame0(level).nextDirection
    /\ score = NewGame0(level).score
    /\ state = NewGame0(level).state
    /\ viewportX = NewGame0(level).viewportX
    /\ moveCounter = NewGame0(level).moveCounter
    /\ enemies = NewGame0(level).enemies
    /\ powerUpTimer = NewGame0(level).powerUpTimer
    /\ startBlinkCounter = NewGame0(level).startBlinkCounter
    /\ before = Snapshot(NewGame0(level))
    /\ cycles = 0
    /\ applied = Point(0, 0)

Update0(keys) == Store(update0(Game, keys, level))

Next0 == \E keys \in Inputs : Update0(keys)

Spec0 == Init0 /\ [][Next0]_vars

-----------------------------------------------------------------------------
(* C22: in the earliest variant, whatever keys are down on the ticks        *)
(* between two consecutive moves of a game, the direction the later move    *)
(* applies is not the exact negation of the direction the earlier one       *)
(* applied.                                                                 *)
C22_NoReversalBetweenMoves ==
    [][ (MoveTick /\ cycles > 0) => direction' # Opposite(applied) ]_vars

-----------------------------------------------------------------------------
(* The tick restarts a finished game.                                       *)
Restarts == state \in {StateGameOver, StateWin} /\ state' = StatePlaying

(* Enemy list es is list fs less its i-th enemy, each of the others having  *)
(* stayed or gone to one of its four wrapped neighbours.                    *)
LessOne(es, fs, i) ==
    /\ Len(es) = Len(fs) - 1
    /\ \A n \in 1 .. Len(es) :
          LET e == RemoveAt(fs, i)[n].Position
          IN \/ es[n].Position = e
             \/ \E m \in 1 .. Len(possibleMoves) : es[n].Position = Dest(e, m)

(* C23: in every state the score is the number of foods gone from the       *)
(* level's food list plus 5 times the number of enemies gone from its       *)
(* enemy list; a tick that does not restart the game never lowers the       *)
(* score, leaves the food list as it is or less one food, the rest in their *)
(* order, and leaves the enemy list with all its enemies or less one        *)
(* enemy, the rest in their order.                                          *)
C23_ScoreAccounts ==
    /\ [](score = (Cardinality(TextCells("F")) - Len(foods))
                    + 5 * (Cardinality(TextCells("X")) - Len(enemies)))
    /\ [][ ~Restarts
             => /\ score' >= score
                /\ \/ foods' = foods
                   \/ \E i \in 1 .. Len(foods) : foods' = RemoveAt(foods, i)
                /\ \/ Len(enemies') = Len(enemies)
                   \/ \E i \in 1 .. Len(enemies) : LessOne(enemies', enemies, i) ]_vars

(* A food that was neither the last nor the only one of the list has been   *)
(* eaten, and the two after it are left in their order.                     *)
C23_Witness ==
    /\ Moved
    /\ Len(before.foods) = 3
    /\ foods = <<before.foods[2], before.foods[3]>>
    /\ score = before.score + 1

-----------------------------------------------------------------------------
(* C24: on a level at least two cells wide and two cells high the snake     *)
(* always has at least one cell, no two cells of it are the same cell, and  *)
(* none of them is a wall.                                                  *)
C24_BodySound ==
    (~exited /\ mazeWidth >= 2 /\ mazeHeight >= 2)
        => /\ Len(snake) >= 1
           /\ \A i, j \in 1 .. Len(snake) : i # j => snake[i] # snake[j]
           /\ \A i \in 1 .. Len(snake) : ~IsWall(snake[i])

(* A snake of three cells or more has just been refused a move into its own *)
(* body.                                                                    *)
C24_Witness ==
    /\ Moved
    /\ mazeWidth >= 2 /\ mazeHeight >= 2
    /\ state = StateGameOver
    /\ Len(snake) >= 3
    /\ Torus(snake[1], direction) \in BodyCells(snake)

-----------------------------------------------------------------------------
(* C25: in a level at least VIEWPORT_WIDTH columns wide, in every Playing   *)
(* state, from the first one on and wherever the entrance is, the column of *)
(* the snake's head is inside the visible window:                           *)
(* viewportX <= head.X < viewportX + VIEWPORT_WIDTH.                        *)
C25_HeadVisible ==
    (state = StatePlaying /\ mazeWidth >= VIEWPORT_WIDTH)
        => /\ viewportX <= snake[1].X
           /\ snake[1].X < viewportX + VIEWPORT_WIDTH

-----------------------------------------------------------------------------
(* C26: in every state each enemy of the list is on a cell of the grid      *)
(* (0 <= X < mazeWidth, 0 <= Y < mazeHeight) that is not a wall; on a       *)
(* movement tick each enemy the snake has left either stays where it was or *)
(* goes to one of its four wrapped neighbours.                              *)
C26_EnemiesOnFloor ==
    /\ [](~exited
            => \A i \in 1 .. Len(enemies) :
                  /\ enemies[i].Position.X \in 0 .. (mazeWidth - 1)
                  /\ enemies[i].Position.Y \in 0 .. (mazeHeight - 1)
                  /\ ~IsWall(enemies[i].Position))
    /\ [][ MoveTick
             => /\ Len(enemies') = Len(EnemiesAtMove)
                /\ \A i \in 1 .. Len(EnemiesAtMove) :
                      LET e == EnemiesAtMove[i].Position
                      IN \/ enemies'[i].Position = e
                         \/ \E n \in 1 .. Len(possibleMoves) :
                               enemies'[i].Position = Dest(e, n) ]_vars

(* An enemy has just moved across an edge of the grid to the cell on the    *)
(* opposite side.                                                           *)
C26_Witness ==
    /\ Moved
    /\ Len(enemies) = Len(before.enemies)
    /\ \E i \in 1 .. Len(enemies) :
          \/ enemies[i].Position.X - before.enemies[i].Position.X \notin {-1, 0, 1}
          \/ enemies[i].Position.Y - before.enemies[i].Position.Y \notin {-1, 0, 1}

=============================================================================
